---- MODULE Spec2Model ----
(***************************************************************************)
(* Model of demo/full/scripts/lib/bytes.ts: the UTF-16LE and UTF-8 codec   *)
(* functions strToLeUtf16, leUtf16ToStr, strToUtf8, utf8ToStr, and the     *)
(* helpers stringFromCharCodes and intToHex.                               *)
(*                                                                         *)
(* A JavaScript string is a sequence of 16-bit code units (0..65535); an   *)
(* Uint8Array is a sequence of bytes (0..255).  Characters are written by  *)
(* their code: "%" = 37, "u" = 117, "0".."9" = 48..57, "A".."F" = 65..70,  *)
(* "a".."f" = 97..102.                                                     *)
(*                                                                         *)
(* A call either returns a value or throws; both outcomes are records      *)
(* [ok, val, err] so that outcomes can be compared.                        *)
(***************************************************************************)
EXTENDS Integers, Sequences, FiniteSets, TLC

VARIABLES
  hasEscape,    \* typeof window.escape === "function" on this platform
  hasUnescape,  \* typeof window.unescape === "function" on this platform
  arg,          \* the value the caller started from
  kind,         \* what the current value is: "text", "bytes", "pcStr"
  calls,        \* the functions called so far, in order
  res,          \* outcome of the last call (initially: the argument itself)
  locals        \* intermediate strings of the last call: pcStr, utf8Str, escaped

vars == <<hasEscape, hasUnescape, arg, kind, calls, res, locals>>

-----------------------------------------------------------------------------
(* Outcomes *)

Ok(v) == [ok |-> TRUE, val |-> v, err |-> "none"]

Err(e) == [ok |-> FALSE, val |-> <<>>, err |-> e]

NoLocals == [pcStr |-> <<>>, utf8Str |-> <<>>, escaped |-> <<>>]

-----------------------------------------------------------------------------
(* Hexadecimal digits *)

\* /[0-9a-fA-F]/ applied to one character
isHexChar(c) == c \in (48..57) \cup (65..70) \cup (97..102)

HexDigitVal(c) ==
  IF c \in 48..57 THEN c - 48
  ELSE IF c \in 65..70 THEN c - 55
  ELSE c - 87

\* digit d (0..15) as Number.prototype.toString(16) writes it: lowercase
LowerHexChar(d) == IF d < 10 THEN 48 + d ELSE 87 + d

\* digit d (0..15) as encodeURIComponent writes it: uppercase
UpperHexChar(d) == IF d < 10 THEN 48 + d ELSE 55 + d

RECURSIVE toString16(_)
toString16(num) ==
  IF num < 16 THEN <<LowerHexChar(num)>>
  ELSE toString16(num \div 16) \o <<LowerHexChar(num % 16)>>

\* new Array(n + 1).join("0")
Zeros(n) == [i \in 1..n |-> 48]

intToHexNoPad(num, size) == toString16(num)

intToHex(num, size) ==
  LET toStr == toString16(num)
  IN  IF Len(toStr) >= size THEN toStr
      ELSE Zeros(size - Len(toStr)) \o toStr

\* parseInt(s, 16): the value of the longest prefix of hex digits, NaN if
\* that prefix is empty
RECURSIVE HexPrefixValue(_, _, _)
HexPrefixValue(s, i, acc) ==
  IF i > Len(s) \/ ~isHexChar(s[i]) THEN acc
  ELSE HexPrefixValue(s, i + 1, acc * 16 + HexDigitVal(s[i]))

parseInt16(s) ==
  IF Len(s) = 0 \/ ~isHexChar(s[1]) THEN [nan |-> TRUE, n |-> 0]
  ELSE [nan |-> FALSE, n |-> HexPrefixValue(s, 1, 0)]

\* String.fromCharCode(x): ToUint16(x), and ToUint16(NaN) = 0
fromCharCode(x) == IF x.nan THEN 0 ELSE x.n % 65536

\* str.substring(from, to) with 0-based, end-exclusive indices
substring(s, from, to) == SubSeq(s, from + 1, to)

-----------------------------------------------------------------------------
(* UTF-16LE *)

strToLeUtf16Mutant(str) ==
  [k \in 1..(2 * Len(str)) |->
     IF k % 2 = 1 THEN (str[(k + 1) \div 2] \div 256) % 256
     ELSE str[k \div 2] % 256]

\* res[i] = value & 0xFF; res[i + 1] = value >> 8 & 0xFF, for i = 0, 2, ...
strToLeUtf16(str) ==
  [k \in 1..(2 * Len(str)) |->
     IF k % 2 = 1 THEN str[(k + 1) \div 2] % 256
     ELSE (str[k \div 2] \div 256) % 256]

\* bytes[j] of an Uint8Array: undefined past the end, and undefined << 8 = 0
ByteOrZero(bytes, j) == IF j < Len(bytes) THEN bytes[j + 1] ELSE 0

leUtf16ToStrMutant(bytes) ==
  [k \in 1..(Len(bytes) \div 2) |->
     ((ByteOrZero(bytes, 2 * k - 1) * 256) + bytes[2 * k - 1]) % 65536]

\* for (i = 0; i < bytes.length; i += 2)
\*   str += String.fromCharCode((bytes[i + 1] << 8) + bytes[i])
leUtf16ToStr(bytes) ==
  [k \in 1..((Len(bytes) + 1) \div 2) |->
     ((ByteOrZero(bytes, 2 * k - 1) * 256) + bytes[2 * k - 1]) % 65536]

-----------------------------------------------------------------------------
(* Platform primitives used by the UTF-8 functions *)

\* s[i] with the 0-based index of the source
At(s, i) == s[i + 1]

PrependOk(prefix, r) == IF r.ok THEN Ok(prefix \o r.val) ELSE r

\* The UTF-8 octets of the code point V
Utf8Octets(V) ==
  IF V < 128 THEN <<V>>
  ELSE IF V < 2048 THEN <<192 + (V \div 64), 128 + (V % 64)>>
  ELSE IF V < 65536 THEN
    <<224 + (V \div 4096), 128 + ((V \div 64) % 64), 128 + (V % 64)>>
  ELSE
    <<240 + (V \div 262144), 128 + ((V \div 4096) % 64),
      128 + ((V \div 64) % 64), 128 + (V % 64)>>

\* "%" followed by the two uppercase hex digits of the octet
PercentOctet(b) == <<37, UpperHexChar(b \div 16), UpperHexChar(b % 16)>>

RECURSIVE PercentOctets(_)
PercentOctets(octets) ==
  IF octets = <<>> THEN <<>>
  ELSE PercentOctet(Head(octets)) \o PercentOctets(Tail(octets))

IsAlnum(c) == c \in (48..57) \cup (65..90) \cup (97..122)

\* uriUnescaped of encodeURIComponent: alphanumerics and - _ . ! ~ * ' ( )
uriUnescaped(c) == IsAlnum(c) \/ c \in {45, 95, 46, 33, 126, 42, 39, 40, 41}

IsLeadSurrogate(c) == c \in 55296..56319

IsTrailSurrogate(c) == c \in 56320..57343

\* encodeURIComponent(str), from the code unit at 0-based index k on:
\* throws URIError on an unpaired surrogate
RECURSIVE Encode(_, _)
Encode(str, k) ==
  IF k >= Len(str) THEN Ok(<<>>)
  ELSE LET C == At(str, k) IN
    IF uriUnescaped(C) THEN PrependOk(<<C>>, Encode(str, k + 1))
    ELSE IF IsTrailSurrogate(C) THEN Err("URIError")
    ELSE IF ~IsLeadSurrogate(C) THEN
      PrependOk(PercentOctets(Utf8Octets(C)), Encode(str, k + 1))
    ELSE IF k + 1 >= Len(str) \/ ~IsTrailSurrogate(At(str, k + 1)) THEN
      Err("URIError")
    ELSE
      PrependOk(
        PercentOctets(Utf8Octets(
          (C - 55296) * 1024 + (At(str, k + 1) - 56320) + 65536)),
        Encode(str, k + 2))

encodeURIComponent(str) == Encode(str, 0)

HexByte(s, i) == HexDigitVal(At(s, i)) * 16 + HexDigitVal(At(s, i + 1))

HexWord(s, i) == HexByte(s, i) * 256 + HexByte(s, i + 2)

\* The platform's unescape(string), from 0-based index k on
RECURSIVE NativeUnescape(_, _)
NativeUnescape(s, k) ==
  IF k >= Len(s) THEN <<>>
  ELSE IF /\ At(s, k) = 37
          /\ k <= Len(s) - 6
          /\ At(s, k + 1) = 117
          /\ \A j \in 2..5 : isHexChar(At(s, k + j))
  THEN <<HexWord(s, k + 2)>> \o NativeUnescape(s, k + 6)
  ELSE IF /\ At(s, k) = 37
          /\ k <= Len(s) - 3
          /\ \A j \in 1..2 : isHexChar(At(s, k + j))
  THEN <<HexByte(s, k + 1)>> \o NativeUnescape(s, k + 3)
  ELSE <<At(s, k)>> \o NativeUnescape(s, k + 1)

unescape(s) == NativeUnescape(s, 0)

\* Number of leading 1 bits of the octet B
LeadingOnes(B) ==
  IF B < 128 THEN 0
  ELSE IF B < 192 THEN 1
  ELSE IF B < 224 THEN 2
  ELSE IF B < 240 THEN 3
  ELSE IF B < 248 THEN 4
  ELSE 5

\* The m escapes "%XX" from 0-based index start on are continuation octets
ContinuationsOk(s, start, m) ==
  \A j \in 0..(m - 1) :
    /\ At(s, start + 3 * j) = 37
    /\ isHexChar(At(s, start + 3 * j + 1))
    /\ isHexChar(At(s, start + 3 * j + 2))
    /\ HexByte(s, start + 3 * j + 1) \in 128..191

\* The code point a sequence of 2..4 octets encodes
Utf8Value(o) ==
  IF Len(o) = 2 THEN (o[1] - 192) * 64 + (o[2] - 128)
  ELSE IF Len(o) = 3 THEN
    (o[1] - 224) * 4096 + (o[2] - 128) * 64 + (o[3] - 128)
  ELSE
    (o[1] - 240) * 262144 + (o[2] - 128) * 4096 + (o[3] - 128) * 64
      + (o[4] - 128)

\* Not overlong, not a surrogate, not above U+10FFFF
ValidUtf8Value(n, V) ==
  IF n = 2 THEN V >= 128
  ELSE IF n = 3 THEN V >= 2048 /\ ~(V \in 55296..57343)
  ELSE V \in 65536..1114111

CodeUnitsOf(V) ==
  IF V < 65536 THEN <<V>>
  ELSE <<55296 + ((V - 65536) \div 1024), 56320 + ((V - 65536) % 1024)>>

\* decodeURIComponent(s), from 0-based index k on: throws URIError on a
\* malformed escape or on octets that are not valid UTF-8
RECURSIVE Decode(_, _)
Decode(s, k) ==
  IF k >= Len(s) THEN Ok(<<>>)
  ELSE IF At(s, k) # 37 THEN PrependOk(<<At(s, k)>>, Decode(s, k + 1))
  ELSE IF k + 2 >= Len(s) THEN Err("URIError")
  ELSE IF ~isHexChar(At(s, k + 1)) \/ ~isHexChar(At(s, k + 2)) THEN
    Err("URIError")
  ELSE LET B == HexByte(s, k + 1)
           n == LeadingOnes(B)
       IN
    IF n = 0 THEN PrependOk(<<B>>, Decode(s, k + 3))
    ELSE IF n = 1 \/ n > 4 THEN Err("URIError")
    ELSE IF k + 2 + 3 * (n - 1) >= Len(s) THEN Err("URIError")
    ELSE IF ~ContinuationsOk(s, k + 3, n - 1) THEN Err("URIError")
    ELSE LET Octets == [j \in 1..n |-> HexByte(s, k + 3 * (j - 1) + 1)]
             V == Utf8Value(Octets)
         IN IF ~ValidUtf8Value(n, V) THEN Err("URIError")
            ELSE PrependOk(CodeUnitsOf(V), Decode(s, k + 3 * n))

decodeURIComponent(s) == Decode(s, 0)

-----------------------------------------------------------------------------
(* strToUtf8 *)

RECURSIVE UnescapeLoopNoSkip(_, _)
UnescapeLoopNoSkip(pcStr, i) ==
  IF ~(i < Len(pcStr)) THEN <<>>
  ELSE IF /\ At(pcStr, i) = 37
          /\ i <= Len(pcStr) - 3
          /\ isHexChar(At(pcStr, i + 1))
          /\ isHexChar(At(pcStr, i + 2))
  THEN <<fromCharCode(parseInt16(substring(pcStr, i + 1, i + 3)))>>
         \o UnescapeLoopNoSkip(pcStr, i + 1)
  ELSE <<At(pcStr, i)>> \o UnescapeLoopNoSkip(pcStr, i + 1)

\* The hand-written unescape of strToUtf8, from loop index i on
RECURSIVE UnescapeLoop(_, _)
UnescapeLoop(pcStr, i) ==
  IF ~(i < Len(pcStr)) THEN <<>>
  ELSE IF /\ At(pcStr, i) = 37
          /\ i <= Len(pcStr) - 6
          /\ At(pcStr, i + 1) = 117
          /\ isHexChar(At(pcStr, i + 2))
          /\ isHexChar(At(pcStr, i + 3))
          /\ isHexChar(At(pcStr, i + 4))
          /\ isHexChar(At(pcStr, i + 5))
  THEN \* parseInt(pcStr.substring(i + 1, i + 6), 16); i += 5
       <<fromCharCode(parseInt16(substring(pcStr, i + 1, i + 6)))>>
         \o UnescapeLoop(pcStr, i + 5 + 1)
  ELSE IF /\ At(pcStr, i) = 37
          /\ i <= Len(pcStr) - 3
          /\ isHexChar(At(pcStr, i + 1))
          /\ isHexChar(At(pcStr, i + 2))
  THEN \* parseInt(pcStr.substring(i + 1, i + 3), 16); i += 2
       <<fromCharCode(parseInt16(substring(pcStr, i + 1, i + 3)))>>
         \o UnescapeLoop(pcStr, i + 2 + 1)
  ELSE <<At(pcStr, i)>> \o UnescapeLoop(pcStr, i + 1)

unescapeFallback(pcStr) == UnescapeLoop(pcStr, 0)

\* utf8Str of strToUtf8: the platform's unescape when window.unescape is a
\* function, the hand-written loop otherwise
Utf8StrOf(hasUnesc, pcStr) ==
  IF hasUnesc THEN unescape(pcStr) ELSE unescapeFallback(pcStr)

\* res[i] = utf8Str.charCodeAt(i) & 0xFF
LowBytes(utf8Str) == [i \in 1..Len(utf8Str) |-> utf8Str[i] % 256]

strToUtf8(hasUnesc, str) ==
  LET pc == encodeURIComponent(str)
  IN  IF ~pc.ok THEN pc
      ELSE Ok(LowBytes(Utf8StrOf(hasUnesc, pc.val)))

strToUtf8Locals(hasUnesc, str) ==
  LET pc == encodeURIComponent(str)
  IN  IF ~pc.ok THEN NoLocals
      ELSE [pcStr |-> pc.val, utf8Str |-> Utf8StrOf(hasUnesc, pc.val),
            escaped |-> <<>>]

-----------------------------------------------------------------------------
(* stringFromCharCodes *)

max == 16000

Min(a, b) == IF a < b THEN a ELSE b

subarrayShort(a, begin, end) == SubSeq(a, begin + 1, Min(end, Len(a)) - 1)

\* a.subarray(begin, end): 0-based, end-exclusive, clamped to the length
subarray(a, begin, end) == SubSeq(a, begin + 1, Min(end, Len(a)))

\* String.fromCharCode.apply(null, subArray)
fromCharCodeApply(sub) == [j \in 1..Len(sub) |-> sub[j] % 65536]

\* for (i = 0; i < args.length; i += max)
RECURSIVE ChunkLoop(_, _)
ChunkLoop(args, i) ==
  IF ~(i < Len(args)) THEN <<>>
  ELSE fromCharCodeApply(subarray(args, i, i + max))
         \o ChunkLoop(args, i + max)

stringFromCharCodes(args) == ChunkLoop(args, 0)

-----------------------------------------------------------------------------
(* utf8ToStr *)

HasByte(data, j, v) == j < Len(data) /\ data[j + 1] = v

stripBomTwo(data) ==
  IF HasByte(data, 0, 239) /\ HasByte(data, 1, 187) /\ HasByte(data, 2, 191)
  THEN subarray(data, 2, Len(data))
  ELSE data

\* if (uint8[0] === 0xEF && uint8[1] === 0xBB && uint8[2] === 0xBF)
\*   uint8 = uint8.subarray(3)
stripBom(data) ==
  IF HasByte(data, 0, 239) /\ HasByte(data, 1, 187) /\ HasByte(data, 2, 191)
  THEN subarray(data, 3, Len(data))
  ELSE data

nonEscapedCharWithPercent(c) ==
  c \in (65..90) \cup (97..122) \cup (48..57) \cup {42, 95} \cup (37..46)
        \cup {47}

\* /[A-Za-z0-9*_+-./]/ applied to one character: "+-." is the range of the
\* codes 43..46
nonEscapedChar(c) ==
  c \in (65..90) \cup (97..122) \cup (48..57) \cup {42, 95} \cup (43..46)
        \cup {47}

\* The hand-written escape of utf8ToStr, from loop index i on
RECURSIVE EscapeLoop(_, _)
EscapeLoop(utf8Str, i) ==
  IF ~(i < Len(utf8Str)) THEN <<>>
  ELSE LET charCode == At(utf8Str, i) IN
    (IF nonEscapedChar(charCode) THEN <<charCode>>
     ELSE IF charCode >= 256 THEN <<37, 117>> \o intToHex(charCode, 4)
     ELSE <<37>> \o intToHex(charCode, 2))
    \o EscapeLoop(utf8Str, i + 1)

escapeFallback(utf8Str) == EscapeLoop(utf8Str, 0)

\* The branch "typeof window.escape !== 'function'" calls escape(utf8Str):
\* it is taken exactly when there is no such function, and the call throws
utf8ToStr(hasEsc, data) ==
  LET utf8Str == stringFromCharCodes(stripBom(data))
  IN  IF ~hasEsc THEN Err("escape is not a function")
      ELSE decodeURIComponent(escapeFallback(utf8Str))

utf8ToStrLocals(hasEsc, data) ==
  LET utf8Str == stringFromCharCodes(stripBom(data))
  IN  [pcStr |-> <<>>, utf8Str |-> utf8Str,
       escaped |-> IF hasEsc THEN escapeFallback(utf8Str) ELSE <<>>]

-----------------------------------------------------------------------------
(* Inputs *)

MaxLen == 2

MaxCalls == 2

MaxChunks == 2

MaxPcLen == 6

\* Code units: "A", "%", ",", U+00E9, U+20AC, the surrogate pair of
\* U+1F600 (D83D DE00), and U+FEFF
TextUnits == {65, 37, 44, 233, 8364, 55357, 56832, 65279}

\* Bytes: "A", ",", line feed, the octets of the BOM (EF BB BF) and of
\* U+00E9 (C3 A9)
ByteUnits == {65, 44, 10, 239, 187, 191, 195, 169}

BOM == <<239, 187, 191>>

SeqsUpTo(S, n) == UNION {[1..m -> S] : m \in 0..n}

Texts == SeqsUpTo(TextUnits, MaxLen)

Buffers ==
  {p \o s : p \in {<<>>, BOM, BOM \o BOM}, s \in SeqsUpTo(ByteUnits, MaxLen)}

\* Buffers around the chunk boundaries of stringFromCharCodes
ChunkLengths ==
  {n \in {k * max + d : k \in 0..MaxChunks, d \in {-1, 0, 1}} : n >= 0}

BigBuffers ==
  {[i \in 1..n |-> (i * step + off) % 256] :
     n \in ChunkLengths, step \in {1, 7}, off \in 0..3}

\* Strings over "%", "u", "4", "z"
PcStrs == SeqsUpTo({37, 117, 52, 122}, MaxPcLen)

-----------------------------------------------------------------------------
(* The caller: picks an argument, then calls codec functions on it *)

Start(v, k) ==
  /\ arg = v
  /\ kind = k
  /\ calls = <<>>
  /\ res = Ok(v)
  /\ locals = NoLocals

\* Browsers provide window.escape and window.unescape; the code also
\* provides for platforms that lack either
Platform ==
  /\ (hasEscape = TRUE \/ hasEscape = FALSE)
  /\ (hasUnescape = TRUE \/ hasUnescape = FALSE)

Init ==
  /\ Platform
  /\ \/ \E t \in Texts : Start(t, "text")
     \/ \E b \in Buffers : Start(b, "bytes")

CanCall(k) == kind = k /\ res.ok /\ Len(calls) < MaxCalls

Returns(name, r, k, l) ==
  /\ calls' = Append(calls, name)
  /\ res' = r
  /\ kind' = k
  /\ locals' = l
  /\ UNCHANGED <<hasEscape, hasUnescape, arg>>

StrToLeUtf16 ==
  /\ CanCall("text")
  /\ Returns("strToLeUtf16", Ok(strToLeUtf16(res.val)), "bytes", NoLocals)

LeUtf16ToStr ==
  /\ CanCall("bytes")
  /\ Returns("leUtf16ToStr", Ok(leUtf16ToStr(res.val)), "text", NoLocals)

StrToUtf8 ==
  /\ CanCall("text")
  /\ Returns("strToUtf8", strToUtf8(hasUnescape, res.val), "bytes",
             strToUtf8Locals(hasUnescape, res.val))

Utf8ToStr ==
  /\ CanCall("bytes")
  /\ Returns("utf8ToStr", utf8ToStr(hasEscape, res.val), "text",
             utf8ToStrLocals(hasEscape, res.val))

StringFromCharCodes ==
  /\ CanCall("bytes")
  /\ Returns("stringFromCharCodes", Ok(stringFromCharCodes(res.val)), "text",
             NoLocals)

Next ==
  \/ StrToLeUtf16
  \/ LeUtf16ToStr
  \/ StrToUtf8
  \/ Utf8ToStr
  \/ StringFromCharCodes

Spec == Init /\ [][Next]_vars

\* stringFromCharCodes on buffers around the chunk boundaries
InitChunk ==
  /\ hasEscape = TRUE
  /\ hasUnescape = TRUE
  /\ \E b \in BigBuffers : Start(b, "bytes")

NextChunk == StringFromCharCodes

SpecChunk == InitChunk /\ [][NextChunk]_vars

\* The unescape step of strToUtf8 (lines "if (typeof window.unescape ..."
\* to the end of the fallback loop) on an arbitrary percent-encoded string
Unescape ==
  /\ CanCall("pcStr")
  /\ Returns("unescape", Ok(Utf8StrOf(hasUnescape, res.val)), "text",
             [pcStr |-> res.val, utf8Str |-> Utf8StrOf(hasUnescape, res.val),
              escaped |-> <<>>])

InitUnescape == Platform /\ \E s \in PcStrs : Start(s, "pcStr")

NextUnescape == Unescape

SpecUnescape == InitUnescape /\ [][NextUnescape]_vars

-----------------------------------------------------------------------------
(* What the claims speak of *)

\* t has a surrogate code unit that is not part of a lead-trail pair
HasUnpairedSurrogate(t) ==
  \E i \in 1..Len(t) :
    \/ /\ IsLeadSurrogate(t[i])
       /\ (i = Len(t) \/ ~IsTrailSurrogate(t[i + 1]))
    \/ /\ IsTrailSurrogate(t[i])
       /\ (i = 1 \/ ~IsLeadSurrogate(t[i - 1]))

\* The standard UTF-8 byte sequence of a text without unpaired surrogates
RECURSIVE StdUtf8(_)
StdUtf8(t) ==
  IF t = <<>> THEN <<>>
  ELSE LET u == Head(t) IN
    IF u < 128 THEN <<u>> \o StdUtf8(Tail(t))
    ELSE IF u < 2048 THEN
      <<192 + (u \div 64), 128 + (u % 64)>> \o StdUtf8(Tail(t))
    ELSE IF ~IsLeadSurrogate(u) THEN
      <<224 + (u \div 4096), 128 + ((u \div 64) % 64), 128 + (u % 64)>>
        \o StdUtf8(Tail(t))
    ELSE LET cp == 65536 + (u - 55296) * 1024 + (t[2] - 56320) IN
      <<240 + (cp \div 262144), 128 + ((cp \div 4096) % 64),
        128 + ((cp \div 64) % 64), 128 + (cp % 64)>>
        \o StdUtf8(Tail(Tail(t)))

IsCont(b, i) == i <= Len(b) /\ b[i] \in 128..191

\* b, from index i on, is well-formed UTF-8
RECURSIVE WellFormedFrom(_, _)
WellFormedFrom(b, i) ==
  IF i > Len(b) THEN TRUE
  ELSE IF b[i] < 128 THEN WellFormedFrom(b, i + 1)
  ELSE IF b[i] \in 194..223 THEN IsCont(b, i + 1) /\ WellFormedFrom(b, i + 2)
  ELSE IF b[i] \in 224..239 THEN
    /\ IsCont(b, i + 1)
    /\ IsCont(b, i + 2)
    /\ (b[i] = 224 => b[i + 1] >= 160)
    /\ (b[i] = 237 => b[i + 1] < 160)
    /\ WellFormedFrom(b, i + 3)
  ELSE IF b[i] \in 240..244 THEN
    /\ IsCont(b, i + 1)
    /\ IsCont(b, i + 2)
    /\ IsCont(b, i + 3)
    /\ (b[i] = 240 => b[i + 1] >= 144)
    /\ (b[i] = 244 => b[i + 1] < 144)
    /\ WellFormedFrom(b, i + 4)
  ELSE FALSE

WellFormedUtf8(b) == WellFormedFrom(b, 1)

StartsWith(s, p) == Len(s) >= Len(p) /\ SubSeq(s, 1, Len(p)) = p

DropFirst(s, n) == SubSeq(s, n + 1, Len(s))

IsOdd(n) == n % 2 = 1

\* The escaping the specification describes for utf8ToStr's loop: letters,
\* digits and * _ + - . / pass, everything else becomes %XX or %uXXXX
PassesPerSpec(c) == IsAlnum(c) \/ c \in {42, 95, 43, 45, 46, 47}

EscapedPerSpec(c) ==
  IF PassesPerSpec(c) THEN <<c>>
  ELSE IF c < 256 THEN <<37, LowerHexChar(c \div 16), LowerHexChar(c % 16)>>
  ELSE <<37, 117, LowerHexChar(c \div 4096), LowerHexChar((c \div 256) % 16),
         LowerHexChar((c \div 16) % 16), LowerHexChar(c % 16)>>

RECURSIVE EscapePerSpec(_)
EscapePerSpec(str) ==
  IF str = <<>> THEN <<>>
  ELSE EscapedPerSpec(Head(str)) \o EscapePerSpec(Tail(str))

-----------------------------------------------------------------------------
(* Claims *)

NoEscapeFunction == Err("escape is not a function")

\* C1, as stated: for every text t, utf8ToStr(strToUtf8(t)) = t.
C1_RoundTripAllTexts ==
  calls = <<"strToUtf8", "utf8ToStr">> => res = Ok(arg)

\* C1, amended: for every text t without unpaired surrogate, decoding the
\* UTF-8 encoding of t returns t when t does not start with U+FEFF and t
\* without its first code unit when it does, on a platform where
\* window.escape is a function; where it is not, the decoding throws.
C1_RoundTripUtf8 ==
  /\ (calls = <<"strToUtf8">> /\ ~HasUnpairedSurrogate(arg) => res.ok)
  /\ (calls = <<"strToUtf8", "utf8ToStr">> =>
        res = IF ~hasEscape THEN NoEscapeFunction
              ELSE IF StartsWith(arg, <<65279>>) THEN Ok(DropFirst(arg, 1))
              ELSE Ok(arg))

\* C1 witness: a text with a 3-byte character and a comma went through
\* strToUtf8 (fallback unescape) and utf8ToStr and came back
C1_Witness ==
  /\ calls = <<"strToUtf8", "utf8ToStr">>
  /\ arg = <<8364, 44>>
  /\ hasEscape /\ ~hasUnescape
  /\ res = Ok(arg)

\* C2, as stated: for every buffer b, utf8ToStr(EF BB BF ++ b) equals
\* utf8ToStr(b).
C2_BomStrippedAlways ==
  calls = <<"utf8ToStr">> /\ StartsWith(arg, BOM) =>
    res = utf8ToStr(hasEscape, DropFirst(arg, 3))

\* C2, amended: for every buffer b that does not itself begin with
\* EF BB BF, utf8ToStr(EF BB BF ++ b) equals utf8ToStr(b); only one BOM is
\* stripped.
C2_BomStrippedOnce ==
  /\ calls = <<"utf8ToStr">>
  /\ StartsWith(arg, BOM)
  /\ ~StartsWith(DropFirst(arg, 3), BOM)
  => res = utf8ToStr(hasEscape, DropFirst(arg, 3))

\* C2 witness: EF BB BF C3 A9 was decoded to U+00E9
C2_Witness ==
  /\ calls = <<"utf8ToStr">>
  /\ arg = BOM \o <<195, 169>>
  /\ res = Ok(<<233>>)

\* C3: strToLeUtf16(t) has length 2 * Len(t), low byte of unit i first and
\* high byte second; leUtf16ToStr(strToLeUtf16(t)) = t; and
\* strToLeUtf16(leUtf16ToStr(b)) = b for every even-length buffer b.
C3_Utf16Inverse ==
  /\ (calls = <<"strToLeUtf16">> =>
        /\ res.ok
        /\ Len(res.val) = 2 * Len(arg)
        /\ \A i \in 1..Len(arg) :
             /\ res.val[2 * i - 1] = arg[i] % 256
             /\ res.val[2 * i] = arg[i] \div 256)
  /\ (calls = <<"strToLeUtf16", "leUtf16ToStr">> => res = Ok(arg))
  /\ (calls = <<"leUtf16ToStr", "strToLeUtf16">> /\ ~IsOdd(Len(arg)) =>
        res = Ok(arg))

\* C3 witness: a text with a code unit above 255 was encoded and decoded
C3_Witness ==
  /\ calls = <<"strToLeUtf16", "leUtf16ToStr">>
  /\ arg = <<8364, 65>>
  /\ res = Ok(arg)

\* C4: for every text without unpaired surrogate, strToUtf8 returns the
\* standard UTF-8 bytes of the text, each byte being the low 8 bits of the
\* matching character of the un-escaped string; U+00E9 gives C3 A9 and the
\* empty text the empty buffer.
C4_StandardUtf8 ==
  calls = <<"strToUtf8">> /\ ~HasUnpairedSurrogate(arg) =>
    /\ res = Ok(StdUtf8(arg))
    /\ Len(res.val) = Len(locals.utf8Str)
    /\ \A i \in 1..Len(res.val) : res.val[i] = locals.utf8Str[i] % 256
    /\ (arg = <<233>> => res.val = <<195, 169>>)
    /\ (arg = <<>> => res.val = <<>>)

\* C4 witness: a surrogate pair was encoded to four bytes by the fallback
C4_Witness ==
  /\ calls = <<"strToUtf8">>
  /\ arg = <<55357, 56832>>
  /\ ~hasUnescape
  /\ res = Ok(<<240, 159, 152, 128>>)

\* C5, as stated: leUtf16ToStr on a buffer of odd length n drops the
\* trailing byte: the result has (n-1)/2 code units and equals
\* leUtf16ToStr of the first n-1 bytes.
C5_OddDropsLastByte ==
  calls = <<"leUtf16ToStr">> /\ IsOdd(Len(arg)) =>
    /\ res.ok
    /\ Len(res.val) = (Len(arg) - 1) \div 2
    /\ res = Ok(leUtf16ToStr(SubSeq(arg, 1, Len(arg) - 1)))

\* C5, amended: leUtf16ToStr on a buffer of odd length n does not fail and
\* does not drop the trailing byte: the result has (n+1)/2 code units, the
\* first (n-1)/2 built from the byte pairs and the last one equal to the
\* trailing byte (its missing high byte reads as 0).
C5_OddKeepsLastByte ==
  calls = <<"leUtf16ToStr">> /\ IsOdd(Len(arg)) =>
    /\ res.ok
    /\ Len(res.val) = (Len(arg) + 1) \div 2
    /\ \A k \in 1..((Len(arg) - 1) \div 2) :
         res.val[k] = arg[2 * k] * 256 + arg[2 * k - 1]
    /\ res.val[Len(res.val)] = arg[Len(arg)]

\* C5 witness: a three-byte buffer was decoded to two code units
C5_Witness ==
  /\ calls = <<"leUtf16ToStr">>
  /\ arg = <<239, 187, 191>>
  /\ res = Ok(<<48111, 191>>)

\* C6, as stated: strToUtf8, strToLeUtf16 and leUtf16ToStr return a value
\* for every input, and utf8ToStr returns a value for every well-formed
\* UTF-8 buffer.
C6_OnlyDecodingFails ==
  /\ (calls \in {<<"strToUtf8">>, <<"strToLeUtf16">>, <<"leUtf16ToStr">>} =>
        res.ok)
  /\ (calls = <<"utf8ToStr">> /\ WellFormedUtf8(arg) => res.ok)

\* C6, amended: strToLeUtf16 and leUtf16ToStr return a value for every
\* input; strToUtf8 throws a URIError exactly on texts with an unpaired
\* surrogate; utf8ToStr throws on every buffer where window.escape is not
\* a function, and where it is one it returns a value for every
\* well-formed UTF-8 buffer and otherwise fails only with the URIError of
\* the final percent-decoding.
C6_ErrorOutcomes ==
  /\ (calls \in {<<"strToLeUtf16">>, <<"leUtf16ToStr">>} => res.ok)
  /\ (calls = <<"strToUtf8">> =>
        IF HasUnpairedSurrogate(arg) THEN res = Err("URIError") ELSE res.ok)
  /\ (calls = <<"utf8ToStr">> =>
        IF ~hasEscape THEN res = NoEscapeFunction
        ELSE /\ (WellFormedUtf8(arg) => res.ok)
             /\ (~res.ok => res = Err("URIError")))

\* C6 witness: a well-formed buffer was decoded where window.escape exists
C6_Witness ==
  /\ calls = <<"utf8ToStr">>
  /\ arg = <<195, 169>>
  /\ hasEscape
  /\ res = Ok(<<233>>)

\* C7: utf8ToStr returns the same with and without the platform's escape,
\* and strToUtf8 the same with and without the platform's unescape.
C7_PathsAgree ==
  /\ (calls = <<"utf8ToStr">> => res = utf8ToStr(~hasEscape, arg))
  /\ (calls = <<"strToUtf8">> => res = strToUtf8(~hasUnescape, arg))

\* C8: stringFromCharCodes returns, for a buffer of any length, exactly one
\* code unit per byte, unit i equal to byte i: the concatenated chunks
\* equal the single pass.
C8_ChunkInvariant ==
  calls = <<"stringFromCharCodes">> =>
    /\ res.ok
    /\ Len(res.val) = Len(arg)
    /\ \A i \in 1..Len(arg) : res.val[i] = arg[i]

\* C8 witness: a buffer one byte longer than a chunk was converted
C8_Witness ==
  /\ calls = <<"stringFromCharCodes">>
  /\ Len(arg) = max + 1
  /\ Len(res.val) = max + 1

\* C9: in utf8ToStr's escaping loop a character passes unescaped iff it is
\* an ASCII letter, digit or one of * _ + - . / and every other character
\* (such as the comma) becomes %XX, or %uXXXX from code 256 on.
C9_EscapeSet ==
  calls = <<"utf8ToStr">> /\ hasEscape =>
    locals.escaped = EscapePerSpec(locals.utf8Str)

====
